---- MODULE Spec2Model ----
(***************************************************************************)
(* Model of the query executor in db/executor.go: the statement loop of    *)
(* execute, the per-statement driver conduct, operate with its implicit    *)
(* transaction, begin / cancel / commit, and the deferred teardown.        *)
(*                                                                         *)
(* The statement evaluators, the KV engine and the mem.Cache handle are    *)
(* collaborators: their outcomes are nondeterministic choices.             *)
(***************************************************************************)
EXTENDS Integers, Sequences, FiniteSets, TLC

\* Longest statement list that is explored.
MaxStmts == 3

\* The statements of a query: the transaction trio, RETURN, a read-only
\* statement and a writable one; dur is the declared duration (0 = none).
Statements ==
    {[type |-> t, dur |-> 0] : t \in {"BEGIN", "COMMIT", "CANCEL", "RETURN", "SELECT", "CREATE"}}
        \cup {[type |-> t, dur |-> 1] : t \in {"SELECT", "CREATE"}}

Asts == UNION {[1..n -> Statements] : n \in 0..MaxStmts}

\* What an evaluator can do: return rows, return an error, or panic.
Outcomes == {"ok", "err", "panic"}

NoRsp == [idx |-> 0, status |-> "", detail |-> <<>>, rows |-> <<>>]

VARIABLES
    ast,        \* ast.Statements
    i,          \* position of the for loop in ast.Statements (1-based)
    pc,         \* where execute is
    ctxDone,    \* the caller's ctx is cancelled
    timedOut,   \* the deadline of the current statement's derived ctx fired
    panicking,  \* a panic is unwinding the stack
    TX,         \* e.dbo.TX: 0 is nil, otherwise an index into kv
    kv,         \* every KV transaction begun so far
    err, buf,   \* conduct's locals err and buf
    res,        \* operate's named result res
    loc, trw,   \* operate's locals loc and trw
    rsp,        \* conduct's local rsp, waiting to be sent
    out,        \* the Responses received on e.send, in order
    receiving,  \* the caller still receives from e.send
    closes,     \* how many times e.send was closed
    puts,       \* how many times the executor was put back in the pool
    lq,         \* the flush / clear calls of the live-query side channel
    evals,      \* history: the evaluator invocations and how they ended
    made,       \* history: every Response conduct built, as it was built
    cancelAt,   \* history: where execute was when ctx was cancelled
    logged      \* the recovered panic was logged

vars == <<ast, i, pc, ctxDone, timedOut, panicking, TX, kv, err, buf, res,
          loc, trw, rsp, out, receiving, closes, puts, lq, evals, made, cancelAt,
          logged>>

stm == ast[i]

IsControl(s) == s.type \in {"BEGIN", "COMMIT", "CANCEL"}

\* sql.WriteableStatement / sql.KillableStatement
Writeable(s) == s.type = "CREATE"
Duration(s) == s.dur

----------------------------------------------------------------------------
\* status(), detail(), groupd()

status(e) ==
    CASE e = "nil" -> "OK"
      [] e = "DBError" -> "ERR_DB"
      [] e = "KVError" -> "ERR_KV"
      [] e = "PermsError" -> "ERR_PE"
      [] e = "ExistError" -> "ERR_EX"
      [] e = "FieldError" -> "ERR_FD"
      [] e = "IndexError" -> "ERR_IX"
      [] e = "TimerError" -> "ERR_TO"
      [] OTHER -> "ERR"

ErrorText(e) ==
    CASE e = "QueryNotExecuted" -> "Query not executed"
      [] OTHER -> e

\* A detail is the sequence of the texts it is concatenated from.
detail(e) == IF e = "nil" THEN <<>> ELSE <<ErrorText(e)>>

groupd(b, r) == <<r>>

\* rsp = &Response{Status: status(err), Detail: detail(err), Result: copy of res}
\* idx tags the Response with the statement it was built for.
Response(k, rs, e) ==
    [idx |-> k, status |-> status(e), detail |-> detail(e), rows |-> rs]

----------------------------------------------------------------------------
\* The transaction handle e.dbo and the KV engine.

NewTxn(rw, global, at) ==
    [rw |-> rw, st |-> "open", global |-> global, at |-> at, endAt |-> 0]

dboClosed(k, t) == t = 0 \/ k[t].st # "open"

dboCancel(k, t, by) ==
    IF dboClosed(k, t) THEN k
    ELSE [k EXCEPT ![t].st = "cancelled", ![t].endAt = by]

dboCommit(k, t, ok, by) ==
    IF dboClosed(k, t) THEN k
    ELSE [k EXCEPT ![t].st = IF ok THEN "committed" ELSE "failed", ![t].endAt = by]

commitErr(k, t, ok) == IF dboClosed(k, t) \/ ok THEN "nil" ELSE "KVError"

dboReset == 0

----------------------------------------------------------------------------
Init ==
    /\ ast \in Asts
    /\ i = 1
    /\ pc = "loop"
    /\ ctxDone = FALSE
    /\ timedOut = FALSE
    /\ panicking = FALSE
    /\ TX = 0
    /\ kv = <<>>
    /\ err = "nil"
    /\ buf = <<>>
    /\ res = <<>>
    /\ loc = FALSE
    /\ trw = FALSE
    /\ rsp = NoRsp
    /\ out = <<>>
    /\ receiving = TRUE
    /\ closes = 0
    /\ puts = 0
    /\ lq = <<>>
    /\ evals = <<>>
    /\ made = <<>>
    /\ cancelAt = [idx |-> 0, tx |-> 0]
    /\ logged = FALSE

----------------------------------------------------------------------------
\* The caller cancels ctx.
CtxCancel ==
    /\ pc # "done"
    /\ UNCHANGED receiving
    /\ ~ctxDone
    /\ ctxDone' = TRUE
    /\ cancelAt' = [idx |-> IF pc = "loop" THEN i - 1 ELSE i, tx |-> TX]
    /\ UNCHANGED <<ast, i, pc, timedOut, panicking, TX, kv, err, buf, res, loc,
                   trw, rsp, out, closes, puts, lq, evals, made, logged>>

\* The caller stops receiving from e.send for good. The executor meets the
\* caller only at a send, so the choice is made when a send is pending.
CallerStop ==
    /\ pc = "send"
    /\ receiving
    /\ receiving' = FALSE
    /\ UNCHANGED <<ast, i, pc, ctxDone, timedOut, panicking, TX, kv, err, buf,
                   res, loc, trw, rsp, out, closes, puts, lq, evals, made,
                   cancelAt, logged>>

\* The deadline of the derived ctx of the running statement fires.
TimerFire ==
    /\ pc \in {"eval", "local"}
    /\ UNCHANGED receiving
    /\ Duration(stm) > 0
    /\ ~timedOut
    /\ timedOut' = TRUE
    /\ UNCHANGED <<ast, i, pc, ctxDone, panicking, TX, kv, err, buf, res, loc,
                   trw, rsp, out, closes, puts, lq, evals, made, cancelAt, logged>>

----------------------------------------------------------------------------
\* execute: the statement loop.

\* The range over ast.Statements is exhausted.
ExecuteLoopEnd ==
    /\ pc = "loop"
    /\ UNCHANGED receiving
    /\ i > Len(ast)
    /\ pc' = "recover"
    /\ UNCHANGED <<ast, i, ctxDone, timedOut, panicking, TX, kv, err, buf, res,
                   loc, trw, rsp, out, closes, puts, lq, evals, made, cancelAt, logged>>

\* Mutant of ExecuteCtxDone: the loop does not look at ctx.Done() and
\* conducts the statement.
ExecuteCtxDone_Ignored ==
    /\ pc = "loop"
    /\ UNCHANGED receiving
    /\ i <= Len(ast)
    /\ ctxDone
    /\ pc' = "conduct"
    /\ err' = "nil"
    /\ buf' = <<>>
    /\ rsp' = NoRsp
    /\ UNCHANGED <<ast, i, ctxDone, timedOut, panicking, TX, kv, res, loc, trw,
                   out, closes, puts, lq, evals, made, cancelAt, logged>>

\* case <-ctx.Done(): return
ExecuteCtxDone ==
    /\ pc = "loop"
    /\ UNCHANGED receiving
    /\ i <= Len(ast)
    /\ ctxDone
    /\ pc' = "recover"
    /\ UNCHANGED <<ast, i, ctxDone, timedOut, panicking, TX, kv, err, buf, res,
                   loc, trw, rsp, out, closes, puts, lq, evals, made, cancelAt, logged>>

\* default: e.conduct(ctx, stm). conduct declares its locals: err and buf
\* start as nil on every call.
ExecuteDefault ==
    /\ pc = "loop"
    /\ UNCHANGED receiving
    /\ i <= Len(ast)
    /\ ~ctxDone
    /\ pc' = "conduct"
    /\ err' = "nil"
    /\ buf' = <<>>
    /\ rsp' = NoRsp
    /\ UNCHANGED <<ast, i, ctxDone, timedOut, panicking, TX, kv, res, loc, trw,
                   out, closes, puts, lq, evals, made, cancelAt, logged>>

----------------------------------------------------------------------------
\* conduct: the transaction statements.

\* case *sql.BeginStatement: e.begin(ctx, true) opens a transaction when
\* none is open; db.Begin can fail and then leaves e.dbo.TX nil.
ConductBegin ==
    /\ pc = "conduct"
    /\ UNCHANGED receiving
    /\ stm.type = "BEGIN"
    /\ \E ok \in BOOLEAN :
          IF TX = 0 /\ ok
          THEN /\ kv' = Append(kv, NewTxn(TRUE, TRUE, i))
               /\ TX' = Len(kv) + 1
          ELSE UNCHANGED <<kv, TX>>
    /\ pc' = "loop"
    /\ i' = i + 1
    /\ UNCHANGED <<ast, ctxDone, timedOut, panicking, err, buf, res, loc, trw,
                   rsp, out, closes, puts, lq, evals, made, cancelAt, logged>>

\* The Responses of b as cancel rewrites them.
cancelled(b) ==
    [n \in 1..Len(b) |->
        [b[n] EXCEPT !.status = "ERR", !.rows = <<>>, !.detail = <<"Transaction cancelled">>]]

\* case *sql.CancelStatement: e.cancel(buf, err, e.send), then clear(e.id).
ConductCancel ==
    /\ pc = "conduct"
    /\ UNCHANGED receiving
    /\ stm.type = "CANCEL"
    /\ TX = 0 \/ buf = <<>> \/ receiving
    /\ IF TX = 0
       THEN UNCHANGED <<kv, out>>
       ELSE /\ kv' = dboCancel(kv, TX, i)
            /\ out' = out \o cancelled(buf)
    /\ TX' = dboReset
    /\ buf' = IF TX = 0 THEN buf ELSE <<>>
    /\ lq' = Append(lq, "clear")
    /\ pc' = "loop"
    /\ i' = i + 1
    /\ UNCHANGED <<ast, ctxDone, timedOut, panicking, err, res, loc, trw, rsp,
                   closes, puts, evals, made, cancelAt, logged>>

\* The Responses of b as commit emits them when the transaction ended with e.
committed(b, e) ==
    [n \in 1..Len(b) |->
        IF e # "nil"
        THEN [b[n] EXCEPT !.status = "ERR", !.rows = <<>>,
                          !.detail = <<"Transaction failed: ", ErrorText(e)>>]
        ELSE b[n]]

\* case *sql.CommitStatement: e.commit(buf, err, e.send), then clear or flush.
ConductCommit ==
    /\ pc = "conduct"
    /\ UNCHANGED receiving
    /\ stm.type = "COMMIT"
    /\ TX = 0 \/ buf = <<>> \/ receiving
    /\ \E ok \in BOOLEAN :
          IF TX = 0
          THEN /\ err' = "nil"
               /\ lq' = Append(lq, "flush")
               /\ UNCHANGED <<kv, out>>
          ELSE /\ kv' = IF err # "nil" THEN dboCancel(kv, TX, i)
                        ELSE dboCommit(kv, TX, ok, i)
               /\ err' = IF err # "nil" THEN "nil" ELSE commitErr(kv, TX, ok)
               /\ out' = out \o committed(buf, err')
               /\ lq' = Append(lq, IF err' # "nil" THEN "clear" ELSE "flush")
    /\ TX' = dboReset
    /\ buf' = IF TX = 0 THEN buf ELSE <<>>
    /\ pc' = "loop"
    /\ i' = i + 1
    /\ UNCHANGED <<ast, ctxDone, timedOut, panicking, res, loc, trw, rsp,
                   closes, puts, evals, made, cancelAt, logged>>

----------------------------------------------------------------------------
\* conduct: a data statement.

\* The end of conduct, once res and err are known: the Response is built,
\* then sent when no transaction is open (tx = 0) and buffered otherwise.
conductTail(tx, rs, e) ==
    /\ made' = Append(made, Response(i, rs, e))
    /\ IF tx = 0
       THEN /\ rsp' = Response(i, rs, e)
            /\ pc' = "send"
            /\ UNCHANGED <<i, buf>>
       ELSE /\ rsp' = NoRsp
            /\ buf' = IF stm.type = "RETURN" THEN groupd(buf, Response(i, rs, e))
                      ELSE Append(buf, Response(i, rs, e))
            /\ pc' = "loop"
            /\ i' = i + 1

\* Mutant of timerDefer: the result is returned as the evaluator left it.
timerDefer_Never(s, rs, e, derivedDone) == [res |-> rs, err |-> e]

\* The deferred function of a statement with a duration: a result without
\* error becomes a TimerError when the derived ctx is done.
timerDefer(s, rs, e, derivedDone) ==
    IF Duration(s) > 0 /\ e = "nil" /\ derivedDone
    THEN [res |-> <<>>, err |-> "TimerError"]
    ELSE [res |-> rs, err |-> e]

\* The ctx that operate selects on after the evaluator: the derived ctx of
\* a statement with a duration, the caller's ctx otherwise.
operateCtxDone == ctxDone \/ (Duration(stm) > 0 /\ timedOut)

\* A data statement. With err set the evaluator is skipped and the Response
\* is synthesized. Otherwise operate runs up to the evaluator call: with no
\* transaction open a local one is begun (loc); db.Begin can fail, and
\* operate then returns the error.
ConductData ==
    /\ pc = "conduct"
    /\ UNCHANGED receiving
    /\ ~IsControl(stm)
    /\ \E ok \in BOOLEAN :
          IF err # "nil"
          THEN /\ err' = "QueryNotExecuted"
               /\ res' = <<>>
               /\ conductTail(TX, <<>>, "QueryNotExecuted")
               /\ UNCHANGED <<kv, TX, evals, timedOut, loc, trw>>
          ELSE IF TX = 0 /\ ~ok
          THEN /\ loc' = TRUE
               /\ trw' = Writeable(stm)
               /\ err' = "KVError"
               /\ res' = <<>>
               /\ conductTail(0, <<>>, "KVError")
               /\ UNCHANGED <<kv, TX, evals, timedOut>>
          ELSE /\ loc' = (TX = 0)
               /\ trw' = IF TX = 0 THEN Writeable(stm) ELSE FALSE
               /\ kv' = IF TX = 0 THEN Append(kv, NewTxn(Writeable(stm), FALSE, i)) ELSE kv
               /\ TX' = IF TX = 0 THEN Len(kv) + 1 ELSE TX
               /\ evals' = Append(evals, [idx |-> i, tx |-> TX', o |-> "running",
                                          fired |-> FALSE, ctx |-> FALSE])
               /\ timedOut' = FALSE
               /\ pc' = "eval"
               /\ UNCHANGED <<i, err, res, rsp, buf, made>>
    /\ UNCHANGED <<ast, ctxDone, panicking, out, closes, puts, lq, cancelAt, logged>>

\* The evaluator returns (rows or an error) or panics, and operate selects
\* on ctx.Done(). A panic runs operate's deferred e.dbo.Cancel() of a local
\* transaction on its way up to execute's recover.
EvalReturn ==
    /\ pc = "eval"
    /\ UNCHANGED receiving
    /\ \E o \in Outcomes :
        LET rs == IF o = "ok" THEN <<i>> ELSE <<>>
            e == IF o = "ok" THEN "nil" ELSE "FieldError"
            fin == timerDefer(stm, rs, e, operateCtxDone)
        IN  /\ evals' = [evals EXCEPT ![Len(evals)] =
                            [@ EXCEPT !.o = o, !.ctx = ctxDone,
                                      !.fired = (Duration(stm) > 0 /\ timedOut)]]
            /\ IF o = "panic"
               THEN /\ panicking' = TRUE
                    /\ kv' = IF loc THEN dboCancel(kv, TX, i) ELSE kv
                    /\ pc' = "recover"
                    /\ UNCHANGED <<i, TX, err, res, rsp, buf, made, lq>>
               ELSE IF operateCtxDone
               THEN /\ kv' = dboCancel(kv, TX, i)
                    /\ TX' = dboReset
                    /\ lq' = Append(lq, "clear")
                    /\ res' = fin.res
                    /\ err' = fin.err
                    /\ conductTail(0, fin.res, fin.err)
                    /\ UNCHANGED panicking
               ELSE IF loc /\ ~dboClosed(kv, TX)
               THEN /\ res' = rs
                    /\ err' = e
                    /\ pc' = "local"
                    /\ UNCHANGED <<i, TX, kv, rsp, buf, made, lq, panicking>>
               ELSE /\ res' = fin.res
                    /\ err' = fin.err
                    /\ conductTail(TX, fin.res, fin.err)
                    /\ UNCHANGED <<TX, kv, lq, panicking>>
    /\ UNCHANGED <<ast, ctxDone, timedOut, loc, trw, out, closes, puts,
                   cancelAt, logged>>

\* Mutant of OperateLocal: a local transaction without error is committed
\* whether or not the statement is writable.
OperateLocal_CommitsReadOnly ==
    /\ pc = "local"
    /\ UNCHANGED receiving
    /\ \E ok \in BOOLEAN :
        LET e == IF err # "nil" THEN err ELSE commitErr(kv, TX, ok)
            fin == timerDefer(stm, res, e, operateCtxDone)
        IN  /\ kv' = IF err # "nil" THEN dboCancel(kv, TX, i)
                     ELSE dboCommit(kv, TX, ok, i)
            /\ lq' = Append(lq, IF e = "nil" THEN "flush" ELSE "clear")
            /\ TX' = dboReset
            /\ res' = fin.res
            /\ err' = fin.err
            /\ conductTail(0, fin.res, fin.err)
    /\ UNCHANGED <<ast, ctxDone, timedOut, panicking, loc, trw, out, closes,
                   puts, evals, cancelAt, logged>>

\* The end of a local transaction: cancel on error or when read-only, commit
\* otherwise; then the deferred Reset, timer function and Cancel run.
OperateLocal ==
    /\ pc = "local"
    /\ UNCHANGED receiving
    /\ \E ok \in BOOLEAN :
        LET e == IF err # "nil" THEN err
                 ELSE IF ~trw THEN "nil"
                 ELSE commitErr(kv, TX, ok)
            fin == timerDefer(stm, res, e, operateCtxDone)
        IN  /\ kv' = IF err # "nil" \/ ~trw THEN dboCancel(kv, TX, i)
                     ELSE dboCommit(kv, TX, ok, i)
            /\ lq' = Append(lq, IF err = "nil" /\ trw /\ e = "nil" THEN "flush" ELSE "clear")
            /\ TX' = dboReset
            /\ res' = fin.res
            /\ err' = fin.err
            /\ conductTail(0, fin.res, fin.err)
    /\ UNCHANGED <<ast, ctxDone, timedOut, panicking, loc, trw, out, closes,
                   puts, evals, cancelAt, logged>>

\* Mutant of chanSend: the Response overtakes those sent before it.
chanSend_Front(q, r) == <<r>> \o q

\* e.send <- rsp
chanSend(q, r) == Append(q, r)

ConductSend ==
    /\ pc = "send"
    /\ receiving
    /\ UNCHANGED receiving
    /\ out' = chanSend(out, rsp)
    /\ pc' = "loop"
    /\ i' = i + 1
    /\ UNCHANGED <<ast, ctxDone, timedOut, panicking, TX, kv, err, buf, res, loc,
                   trw, rsp, closes, puts, lq, evals, made, cancelAt, logged>>

----------------------------------------------------------------------------
\* execute: the deferred functions, last registered first.

\* Mutant of DeferRecover: the panic is logged but not recovered.
DeferRecover_Propagates ==
    /\ pc = "recover"
    /\ UNCHANGED receiving
    /\ logged' = (logged \/ panicking)
    /\ pc' = "teardown"
    /\ UNCHANGED <<ast, i, ctxDone, timedOut, panicking, TX, kv, err, buf, res,
                   loc, trw, rsp, out, closes, puts, lq, evals, made, cancelAt>>

\* recover(): a panic is logged and stops here.
DeferRecover ==
    /\ pc = "recover"
    /\ UNCHANGED receiving
    /\ logged' = (logged \/ panicking)
    /\ panicking' = FALSE
    /\ pc' = "teardown"
    /\ UNCHANGED <<ast, i, ctxDone, timedOut, TX, kv, err, buf, res, loc, trw,
                   rsp, out, closes, puts, lq, evals, made, cancelAt>>

\* Mutant of DeferCancel: a transaction left open is not cancelled.
DeferCancel_Skipped ==
    /\ pc = "teardown"
    /\ UNCHANGED receiving
    /\ pc' = "close"
    /\ UNCHANGED <<ast, i, ctxDone, timedOut, panicking, TX, kv, err, buf, res,
                   loc, trw, rsp, out, closes, puts, lq, evals, made, cancelAt,
                   logged>>

\* if e.dbo.TX != nil { e.dbo.Cancel(); clear(e.id) }
DeferCancel ==
    /\ pc = "teardown"
    /\ UNCHANGED receiving
    /\ kv' = IF TX # 0 THEN dboCancel(kv, TX, 0) ELSE kv
    /\ lq' = IF TX # 0 THEN Append(lq, "clear") ELSE lq
    /\ pc' = "close"
    /\ UNCHANGED <<ast, i, ctxDone, timedOut, panicking, TX, err, buf, res, loc,
                   trw, rsp, out, closes, puts, evals, made, cancelAt, logged>>

\* Mutant of DeferClose: the close is not deferred, a panic skips it.
DeferClose_NotOnPanic ==
    /\ pc = "close"
    /\ UNCHANGED receiving
    /\ closes' = IF logged THEN closes ELSE closes + 1
    /\ pc' = "put"
    /\ UNCHANGED <<ast, i, ctxDone, timedOut, panicking, TX, kv, err, buf, res,
                   loc, trw, rsp, out, puts, lq, evals, made, cancelAt, logged>>

\* close(e.send)
DeferClose ==
    /\ pc = "close"
    /\ UNCHANGED receiving
    /\ closes' = closes + 1
    /\ pc' = "put"
    /\ UNCHANGED <<ast, i, ctxDone, timedOut, panicking, TX, kv, err, buf, res,
                   loc, trw, rsp, out, puts, lq, evals, made, cancelAt, logged>>

\* Mutant of DeferPut: the executor is put back a second time.
DeferPut_Twice ==
    /\ pc = "put"
    /\ UNCHANGED receiving
    /\ puts' = puts + 2
    /\ pc' = "done"
    /\ UNCHANGED <<ast, i, ctxDone, timedOut, panicking, TX, kv, err, buf, res,
                   loc, trw, rsp, out, closes, lq, evals, made, cancelAt, logged>>

\* executorPool.Put(e); execute has returned.
DeferPut ==
    /\ pc = "put"
    /\ UNCHANGED receiving
    /\ puts' = puts + 1
    /\ pc' = "done"
    /\ UNCHANGED <<ast, i, ctxDone, timedOut, panicking, TX, kv, err, buf, res,
                   loc, trw, rsp, out, closes, lq, evals, made, cancelAt, logged>>

----------------------------------------------------------------------------
Next ==
    \/ CtxCancel
    \/ CallerStop
    \/ TimerFire
    \/ ExecuteLoopEnd
    \/ ExecuteCtxDone
    \/ ExecuteDefault
    \/ ConductBegin
    \/ ConductCancel
    \/ ConductCommit
    \/ ConductData
    \/ EvalReturn
    \/ OperateLocal
    \/ ConductSend
    \/ DeferRecover
    \/ DeferCancel
    \/ DeferClose
    \/ DeferPut

Spec == Init /\ [][Next]_vars

\* The steps of the executor itself: the evaluators and the KV operations
\* return, and the goroutine of execute is scheduled.
ExecNext ==
    \/ ExecuteLoopEnd
    \/ ExecuteCtxDone
    \/ ExecuteDefault
    \/ ConductBegin
    \/ ConductCancel
    \/ ConductCommit
    \/ ConductData
    \/ EvalReturn
    \/ OperateLocal
    \/ ConductSend
    \/ DeferRecover
    \/ DeferCancel
    \/ DeferClose
    \/ DeferPut

SpecFair == Spec /\ WF_vars(ExecNext)

----------------------------------------------------------------------------
\* Vocabulary of the properties.

Max(S) == CHOOSE x \in S : \A y \in S : y <= x

\* The position of the first COMMIT or CANCEL after position b, or
\* Len(ast) + 1 when there is none.
EndAfter(b) ==
    LET ends == {k \in (b + 1)..Len(ast) : ast[k].type \in {"COMMIT", "CANCEL"}}
    IN  IF ends = {} THEN Len(ast) + 1 ELSE CHOOSE k \in ends : \A j \in ends : k <= j

\* The explicit transactions: those a BEGIN statement opened.
Explicit == {t \in 1..Len(kv) : kv[t].global}

TxnEnd(t) == EndAfter(kv[t].at)

\* The data statements positioned between the BEGIN of t and the next
\* COMMIT or CANCEL.
TxnStmts(t) == {k \in (kv[t].at + 1)..(TxnEnd(t) - 1) : ~IsControl(ast[k])}

\* The positions whose Responses the buffer of t holds when it terminates:
\* every data statement, or those from the last RETURN on.
BufStmts(t) ==
    LET rets == {k \in TxnStmts(t) : ast[k].type = "RETURN"}
    IN  IF rets = {} THEN TxnStmts(t) ELSE {k \in TxnStmts(t) : k >= Max(rets)}

\* t was ended by the COMMIT / CANCEL statement that follows its BEGIN.
EndedBy(t, type) ==
    /\ TxnEnd(t) <= Len(ast)
    /\ ast[TxnEnd(t)].type = type
    /\ kv[t].endAt = TxnEnd(t)

IsMade(k) == \E m \in 1..Len(made) : made[m].idx = k
MadeFor(k) == made[CHOOSE m \in 1..Len(made) : made[m].idx = k]
Failed(k) == IsMade(k) /\ MadeFor(k).status # "OK"

\* The places in out of the Responses of the statements in S.
Delivered(S) == {n \in 1..Len(out) : out[n].idx \in S}

RECURSIVE SumBuf(_)
SumBuf(n) ==
    IF n = 0 THEN 0
    ELSE SumBuf(n - 1) +
         (IF n \in Explicit /\ (EndedBy(n, "COMMIT") \/ EndedBy(n, "CANCEL"))
          THEN Cardinality(BufStmts(n)) ELSE 0)

\* The data statements that were processed to their end while no explicit
\* transaction was open.
ImplicitDone ==
    {k \in 1..Len(ast) : /\ k < i
                         /\ ~IsControl(ast[k])
                         /\ \A t \in Explicit : ~(kv[t].at < k /\ (kv[t].endAt = 0 \/ kv[t].endAt >= k))}

----------------------------------------------------------------------------
\* C1: when execute has returned, the number of Responses received on out is
\* the number of data statements processed outside an explicit transaction
\* plus, for every explicit transaction that a COMMIT or CANCEL statement
\* terminated, the size of its buffer (one entry per data statement since
\* the BEGIN, or the entries from the last RETURN on).
C1_OutCount ==
    pc = "done" => Len(out) = Cardinality(ImplicitDone) + SumBuf(Len(kv))

\* C2: e.send is closed at most once, it is closed when execute has
\* returned, and nothing is sent on it after the close.
C2_ClosedOnce ==
    /\ [](closes <= 1 /\ (pc = "done" => closes = 1))
    /\ [][closes >= 1 => out' = out]_vars

\* C2 witness: execute has returned after a panic, with a Response
\* delivered and the channel closed.
C2_Witness == pc = "done" /\ logged /\ Len(out) >= 1 /\ closes = 1

\* C3: for an explicit transaction without RETURN whose statements all
\* succeeded and whose COMMIT committed, the caller has received exactly one
\* Response per statement, as the statement produced it; while the
\* transaction is open none of them has been delivered.
C3_CommitDelivers ==
    \A t \in Explicit :
        /\ (kv[t].st = "open" => Delivered(TxnStmts(t)) = {})
        /\ ( /\ EndedBy(t, "COMMIT")
             /\ kv[t].st = "committed"
             /\ \A k \in TxnStmts(t) : ast[k].type # "RETURN" /\ IsMade(k) /\ ~Failed(k)
             => /\ Cardinality(Delivered(TxnStmts(t))) = Cardinality(TxnStmts(t))
                /\ \A k \in TxnStmts(t) : \E n \in 1..Len(out) : out[n] = MadeFor(k) )

\* C4: an explicit transaction in which a data statement returned an error
\* is cancelled by its COMMIT statement: KV Commit is not invoked on it.
C4_CommitDegrades ==
    \A t \in Explicit :
        (EndedBy(t, "COMMIT") /\ \E k \in TxnStmts(t) : Failed(k))
            => kv[t].st = "cancelled"

\* C5: in an explicit transaction, after a data statement returned an
\* error no evaluator is invoked for a later data statement processed in
\* that transaction: its Response is the synthetic 'Query not executed'.
C5_StickyError ==
    \A t \in Explicit : \A k1, k2 \in TxnStmts(t) :
        ( /\ k1 < k2
          /\ Failed(k1)
          /\ IsMade(k2)
          /\ (kv[t].endAt = 0 \/ kv[t].endAt > k2) )
        => /\ \A n \in 1..Len(evals) : evals[n].idx # k2
           /\ MadeFor(k2) = Response(k2, <<>>, "QueryNotExecuted")

\* C6: when an explicit transaction ended with CANCEL, or with a COMMIT
\* that did not commit, every Response of its buffer has been delivered
\* with status ERR, no rows and a detail starting with 'Transaction
\* cancelled' / 'Transaction failed: ', and none of its Responses was
\* delivered with another status or with rows.
C6_CancelRewrites ==
    \A t \in Explicit :
        (EndedBy(t, "CANCEL") \/ (EndedBy(t, "COMMIT") /\ kv[t].st # "committed"))
        => /\ \A k \in BufStmts(t) : \E n \in 1..Len(out) :
                /\ out[n].idx = k
                /\ out[n].detail # <<>>
                /\ out[n].detail[1] = IF ast[TxnEnd(t)].type = "CANCEL"
                                      THEN "Transaction cancelled"
                                      ELSE "Transaction failed: "
           /\ \A n \in Delivered(TxnStmts(t)) : out[n].status = "ERR" /\ out[n].rows = <<>>

\* C7: when an explicit transaction whose last statement before COMMIT is a
\* RETURN has committed, the caller has received exactly one Response for
\* the transaction, the one of the RETURN.
C7_ReturnCollapses ==
    \A t \in Explicit :
        ( /\ EndedBy(t, "COMMIT")
          /\ kv[t].st = "committed"
          /\ TxnEnd(t) - 1 \in TxnStmts(t)
          /\ ast[TxnEnd(t) - 1].type = "RETURN" )
        => /\ Cardinality(Delivered(TxnStmts(t))) = 1
           /\ \A n \in Delivered(TxnStmts(t)) : out[n] = MadeFor(TxnEnd(t) - 1)

\* C8: while execute is at a data statement positioned between a BEGIN that
\* opened an explicit transaction and the next COMMIT or CANCEL, nothing is
\* sent on out.
C8_NoSendInsideTxn ==
    [][(i <= Len(ast) /\ \E t \in Explicit : i \in TxnStmts(t)) => out' = out]_vars

C10_CancelStops ==
    ctxDone =>
        /\ \A n \in 1..Len(evals) : evals[n].idx <= cancelAt.idx
        /\ \A t \in 1..Len(kv) : kv[t].at <= cancelAt.idx
        /\ cancelAt.tx # 0 => kv[cancelAt.tx].st \notin {"committed", "failed"}

\* C10 amended: once ctx is cancelled, no evaluator is invoked and no KV
\* transaction is begun for a statement after the one being processed at
\* that time; KV Commit is invoked on the transaction that was open at that
\* time by no other statement than the one being processed at that time,
\* and the transaction is closed when execute has returned.
C10_CancelStopsLater ==
    ctxDone =>
        /\ \A n \in 1..Len(evals) : evals[n].idx <= cancelAt.idx
        /\ \A t \in 1..Len(kv) : kv[t].at <= cancelAt.idx
        /\ cancelAt.tx # 0 =>
              /\ kv[cancelAt.tx].st \in {"committed", "failed"}
                    => (cancelAt.idx >= 1 /\ kv[cancelAt.tx].endAt = cancelAt.idx)
              /\ pc = "done" => kv[cancelAt.tx].st # "open"

\* C10 witness: execute has returned, ctx was cancelled while a transaction
\* was open, statements after the one in progress were left, and the
\* transaction ended cancelled.
C10_Witness ==
    /\ pc = "done"
    /\ ctxDone
    /\ cancelAt.tx # 0
    /\ cancelAt.idx < Len(ast)
    /\ i <= Len(ast)
    /\ kv[cancelAt.tx].st = "cancelled"

----------------------------------------------------------------------------
\* The evaluator invocations that returned (with rows or with an error).
Returned == {n \in 1..Len(evals) : evals[n].o \in {"ok", "err"}}

\* The evaluator invocations of statements run as their own local
\* transaction.
Local == {n \in 1..Len(evals) : ~kv[evals[n].tx].global}

Panicked == \E n \in 1..Len(evals) : evals[n].o = "panic"

\* C11: when operate found ctx cancelled after the evaluator of a statement
\* returned, neither the Response of that statement nor a later one is
\* received on out, and out is closed when execute has returned.
C11_NoResponseAfterCancel ==
    /\ \A n \in Returned :
          evals[n].ctx => \A m \in 1..Len(out) : out[m].idx < evals[n].idx
    /\ pc = "done" => closes = 1

\* C12 as stated: when execute has returned, e.dbo.TX is nil.
C12_TxnAbsent == pc = "done" => TX = 0

\* C12 amended: when execute has returned no transaction is open: e.dbo.TX
\* is nil or refers to a cancelled transaction.
C12_TxnClosed ==
    pc = "done" =>
        /\ TX = 0 \/ kv[TX].st = "cancelled"
        /\ \A t \in 1..Len(kv) : kv[t].st # "open"

\* C12 witness: execute has returned with e.dbo.TX still referring to the
\* cancelled transaction of a BEGIN without COMMIT / CANCEL.
C12_Witness ==
    pc = "done" /\ TX # 0 /\ kv[TX].global /\ kv[TX].st = "cancelled" /\ ~logged

\* C13: after the evaluator of statement i panicked, the panic stops in
\* execute, the Responses of the statements processed before i outside an
\* explicit transaction have been received, no Response of statement i or a
\* later one is received, no later statement is executed, the transaction
\* open at the panic is never committed and is cancelled, and out is closed,
\* when execute has returned.
C13_PanicContained ==
    Panicked =>
        LET t == evals[Len(evals)].tx
        IN  /\ evals[Len(evals)].o = "panic"
            /\ evals[Len(evals)].idx = i
            /\ \A k \in ImplicitDone : Delivered({k}) # {}
            /\ \A m \in 1..Len(out) : out[m].idx < i
            /\ \A u \in 1..Len(kv) : kv[u].at <= i
            /\ kv[t].st \notin {"committed", "failed"}
            /\ pc = "done" => (~panicking /\ logged /\ kv[t].st = "cancelled" /\ closes = 1)

\* C13 witness: execute has returned after the evaluator of the second of
\* three statements panicked; the Response of the first was received.
C13_Witness ==
    pc = "done" /\ Panicked /\ i >= 2 /\ i < Len(ast) /\ Len(out) >= 1

\* C14 as stated: when the deadline of a statement fired while its evaluator
\* ran, the Response of the statement has status ERR_TO, whether the
\* evaluator returned rows or an error.
C14_TimeoutStatus ==
    \A n \in Returned :
        (evals[n].fired /\ IsMade(evals[n].idx))
            => MadeFor(evals[n].idx).status = "ERR_TO"

\* C14 amended: when the deadline of a statement fired while its evaluator
\* ran and the evaluator returned without error, the Response of the
\* statement has status ERR_TO; an error the evaluator returned is kept.
C14_TimeoutStatusOnSuccess ==
    \A n \in Returned :
        (evals[n].fired /\ IsMade(evals[n].idx))
            => MadeFor(evals[n].idx).status =
                   IF evals[n].o = "ok" THEN "ERR_TO" ELSE status("FieldError")

\* C14 witness: the deadline fired, the evaluator returned rows, and the
\* Response is ERR_TO.
C14_Witness ==
    \E n \in Returned :
        /\ evals[n].fired
        /\ evals[n].o = "ok"
        /\ IsMade(evals[n].idx)
        /\ MadeFor(evals[n].idx).status = "ERR_TO"

\* C15: if the caller keeps receiving from e.send or cancels ctx, execute
\* eventually returns, with e.send closed.
C15_Returns ==
    ([]receiving \/ <>ctxDone) => <>(pc = "done" /\ closes = 1)

\* What C16 says of the local transaction of evaluator invocation n, once
\* operate has returned.
LocalOutcome(n) ==
    LET t == evals[n].tx
    IN  /\ kv[t].st \in {"committed", "failed"} <=> (kv[t].rw /\ evals[n].o = "ok")
        /\ kv[t].st \notin {"committed", "failed"} => kv[t].st = "cancelled"
        /\ kv[t].st = "failed" => MadeFor(evals[n].idx).status = "ERR_KV"

\* C16 as stated: for a statement run as its own transaction whose
\* evaluator returned with ctx not cancelled, the transaction is committed
\* iff the statement is writable and the evaluator returned no error, and
\* is cancelled otherwise; a failed commit is the statement's error; and
\* e.dbo.TX is nil when operate has returned.
C16_LocalCommit ==
    /\ \A n \in Returned \cap Local :
          (~evals[n].ctx /\ IsMade(evals[n].idx)) => LocalOutcome(n)
    /\ pc = "send" => TX = 0

\* C16 amended: the same, for a statement whose own deadline has not fired
\* either when operate checks ctx.
C16_LocalCommitNoTimeout ==
    /\ \A n \in Returned \cap Local :
          (~evals[n].ctx /\ ~evals[n].fired /\ IsMade(evals[n].idx)) => LocalOutcome(n)
    /\ pc = "send" => TX = 0

\* C16 witness: a writable statement ran as its own transaction, its
\* evaluator returned rows, and the transaction is committed.
C16_Witness ==
    \E n \in Returned \cap Local :
        /\ ~evals[n].ctx
        /\ ~evals[n].fired
        /\ evals[n].o = "ok"
        /\ IsMade(evals[n].idx)
        /\ kv[evals[n].tx].st = "committed"
        /\ pc = "send"

\* C17: flush is called only in a step in which KV Commit of the open
\* transaction returned success.
C17_FlushOnlyOnCommit ==
    [][(lq' # lq /\ lq'[Len(lq')] = "flush")
          => \E t \in 1..Len(kv) : kv[t].st = "open" /\ kv'[t].st = "committed"]_vars

\* C18: the executor is put back in the pool at most once, and exactly once
\* when execute has returned; by then e.send is closed; when e.send is
\* closed no transaction is open, and clear was called for a transaction
\* the teardown cancelled; after the put nothing is sent and no transaction
\* changes.
C18_TeardownOrder ==
    /\ [](/\ puts <= 1
          /\ pc = "done" => puts = 1
          /\ puts >= 1 => closes = 1
          /\ closes >= 1 => \A t \in 1..Len(kv) : kv[t].st # "open"
          /\ (closes >= 1 /\ TX # 0) => (lq # <<>> /\ lq[Len(lq)] = "clear"))
    /\ [][puts >= 1 => (out' = out /\ kv' = kv /\ TX' = TX)]_vars

\* C18 witness: execute has returned after a panic inside an explicit
\* transaction: the transaction was cancelled, e.send closed, the executor
\* put back once.
C18_Witness ==
    pc = "done" /\ logged /\ TX # 0 /\ kv[TX].global /\ closes = 1 /\ puts = 1

\* C19: the evaluator of every data statement positioned between the BEGIN
\* of an explicit transaction and the next COMMIT or CANCEL is invoked
\* inside that transaction.
C19_OneTransaction ==
    \A n \in 1..Len(evals) : \A t \in Explicit :
        evals[n].idx \in TxnStmts(t) => evals[n].tx = t

\* C20: a Response with status OK received for a writable statement that
\* ran as its own transaction implies that the transaction is committed.
C20_OkMeansCommitted ==
    \A m \in 1..Len(out) : \A n \in Local :
        ( /\ evals[n].idx = out[m].idx
          /\ out[m].status = "OK"
          /\ Writeable(ast[out[m].idx]) )
        => kv[evals[n].tx].st = "committed"

====
